---- MODULE Spec2Model ----
(***************************************************************************)
(* Berkeley crime dashboard: incident fetcher, address geocoder with its   *)
(* persisted cache, time-of-day classifier, colour tiers of the street     *)
(* map, the offline density scorer and the dashboard's session state.      *)
(*                                                                         *)
(* Each component has its own specification over the shared variables:     *)
(*   SpecGeo    geocode_addresses passes sharing geocode_cache.json         *)
(*   SpecView   the filtered view of the dashboard on any dataset           *)
(* The variables a specification does not use stay at their initial value. *)
(***************************************************************************)
EXTENDS Integers, Sequences, FiniteSets

(***************************************************************************)
(* Bounds of the model.                                                    *)
(***************************************************************************)
NumAddresses == 2      \* distinct Block_Address strings: 1..NumAddresses
NumLocations == 2      \* distinct locations the geocoding provider can answer
MaxRows == 3           \* rows of a data frame handed to geocode_addresses
MaxPasses == 2         \* geocoding passes in one behaviour
MaxPages == 3          \* non-empty pages the feature service answers in one fetch
MaxTimeRows == 1       \* rows of a frame handed to add_time_of_day on its own
NumDays == 2           \* days the timestamps of those rows span
NumMapEdges == 3       \* street segments of a filtered edge-count map
MaxCount == 10         \* largest per-edge count of a filtered edge-count map
NumNetEdges == 3       \* street segments of the road network the scorer merges onto
MaxIncidents == 4      \* largest per-edge incident count the scorer sees
MaxViewRows == 3       \* rows of a dataset handed to the filtered view on its own

(***************************************************************************)
(* Program constants.                                                      *)
(***************************************************************************)
batch_size == 2000     \* utils.py line 20

(***************************************************************************)
(* Values.                                                                 *)
(***************************************************************************)
NaN == 0               \* a missing Block_Address (JSON null, pandas NaN/None)
None == [kind |-> "None"]          \* Python's None, JSON's null

Addresses == 1..NumAddresses       \* the Block_Address strings

\* geopy Location objects the provider can answer with.
Locations ==
    {[kind |-> "location", latitude |-> l, longitude |-> 0 - l] : l \in 1..NumLocations}

\* What one geocode(...) call can do: answer a location, answer None, raise.
Raise == [kind |-> "raise"]
LookupOutcomes == Locations \cup {None, Raise}

\* A Python tuple and a Python list (a JSON array) holding a coordinate pair.
PyTuple(lat, lon) == [kind |-> "tuple", lat |-> lat, lon |-> lon]
PyList(lat, lon) == [kind |-> "list", lat |-> lat, lon |-> lon]

\* Python dicts are functions on the set of their keys.
EmptyDict == [k \in {} |-> None]
DictSet(d, k, v) == [x \in (DOMAIN d) \cup {k} |-> IF x = k THEN v ELSE d[x]]

\* json.dumps / json.loads of the cache dict: a tuple is written as an array
\* and an array is read back as a list; None is null both ways.
json_dumps(d) ==
    [k \in DOMAIN d |-> IF d[k] = None THEN None ELSE PyList(d[k].lat, d[k].lon)]
json_loads(text) == text

\* What a call returned or raised.
Frame(rows) == [kind |-> "frame", rows |-> rows]
Raised(exc) == [kind |-> "raised", exc |-> exc]

\* Rows of the frame fetch_crime_data builds: the three outFields.
Row(t, a, ms) == [Incident_Type |-> t, Block_Address |-> a, Occurred_Datetime |-> ms]

\* A record r with the fields of record e added (e wins).
Extend(r, e) ==
    [f \in (DOMAIN r) \cup (DOMAIN e) |-> IF f \in DOMAIN e THEN e[f] ELSE r[f]]

VARIABLES
    cache_file,        \* geocode_cache.json: [exists, text]; text is the dict it decodes to
    gpc,               \* geocode_addresses: "idle", "loop", "returned", "raised"
    g_df,              \* its argument _df (a sequence of rows)
    geocode_cache,     \* its local dict
    unique_addresses,  \* its local array of distinct non-null addresses
    address_coords,    \* its local dict
    gi,                \* the for loop's position in unique_addresses (1-based)
    g_result,          \* what the call returned or raised, None before
    lookups,           \* history: provider calls per address, over all passes
    looked_up,         \* history: addresses sent to the provider in the current pass
    lookup_errors,     \* history: addresses whose lookup raised in the current pass
    passes             \* history: passes started

geoVars == <<cache_file, gpc, g_df, geocode_cache, unique_addresses,
             address_coords, gi, g_result, lookups, looked_up, lookup_errors, passes>>

VARIABLES
    fpc,               \* fetch_crime_data: "idle", "loop", "returned", "raised"
    all_features,      \* its local list
    offset,            \* its local resultOffset
    f_result,          \* what the call returned or raised, None before
    pages              \* history: the pages the feature service answered, in order

fetchVars == <<fpc, all_features, offset, f_result, pages>>

VARIABLES
    tpc,               \* add_time_of_day: "input", "done"
    t_df               \* its argument df, then the frame it returns

timeVars == <<tpc, t_df>>

VARIABLES
    cpc,               \* create_crime_map: "input", "done"
    edge_counts,       \* its argument edge_counts (a dict edge -> count)
    breaks,            \* its local breaks, in twentieths
    colors             \* the color property of each street feature

colorVars == <<cpc, edge_counts, breaks, colors>>

VARIABLES
    spc,               \* precompute_safety_scores: "input", "done"
    crime_count,       \* incidents snapped to each edge of the network
    safety_score       \* the safety_score column written to the GeoJSON file

scoreVars == <<spc, crime_count, safety_score>>

VARIABLES
    vpc,               \* the filtered view of original_main: "input", "done"
    v_df,              \* processed_data['geo_df'] as the view reads it
    v_filters,         \* st.session_state.filters as the view reads it
    filtered_df,       \* its local filtered_df
    filtered_edge_counts   \* its local filtered_edge_counts

viewVars == <<vpc, v_df, v_filters, filtered_df, filtered_edge_counts>>

VARIABLES
    processed_data,    \* st.session_state.processed_data: None or the loaded dataset
    filters,           \* st.session_state.filters: the applied filter state
    temp_filters,      \* st.session_state.temp_filters: the staged filter state, None before
    fetch_memo,        \* st.cache_data of fetch_crime_data: date range -> returned frame
    geocode_memo,      \* st.cache_data of geocode_addresses: None or the returned frame
    dpc,               \* the script run of a Run Analysis click: "ready", "fetch", "geocode"
    d_range,           \* the date range of that run
    ui,                \* what the last script run left on the page: "info", "map", "exception"
    last_run           \* history: what the last finished Run Analysis did

dashVars == <<processed_data, filters, temp_filters, fetch_memo, geocode_memo,
              dpc, d_range, ui, last_run>>

vars == <<geoVars, fetchVars, timeVars, colorVars, scoreVars, viewVars, dashVars>>

(***************************************************************************)
(* Address Geocoder: utils.geocode_addresses.                              *)
(***************************************************************************)

RECURSIVE UniqueOf(_, _)
\* Series.dropna().unique(): the distinct non-null values in order of first appearance.
UniqueOf(rows, seen) ==
    IF rows = <<>> THEN <<>>
    ELSE LET a == Head(rows).Block_Address IN
         IF a = NaN \/ a \in seen THEN UniqueOf(Tail(rows), seen)
         ELSE <<a>> \o UniqueOf(Tail(rows), seen \cup {a})

\* Line 66, as a plausible slip: an entry holding None counts as missing.
NeedsLookupTruthy(cache, address) ==
    address \notin DOMAIN cache \/ cache[address] = None

\* Line 66: address not in geocode_cache.
NeedsLookup(cache, address) == address \notin DOMAIN cache

\* Lines 76-77: _df['coords'] = _df['Block_Address'].map(address_coords), then
\* dropna(subset=['coords']).  A null address and a key the dict lacks map to
\* NaN, a key holding None maps to None: both are dropped.
HasCoords(row, coords) ==
    /\ row.Block_Address # NaN
    /\ row.Block_Address \in DOMAIN coords
    /\ coords[row.Block_Address] # None

\* Line 78: the latitude and longitude columns, from the pair (tuple or list).
WithLatLon(row, coords) ==
    LET c == coords[row.Block_Address] IN
    Extend(row, [coords |-> c, latitude |-> c.lat, longitude |-> c.lon])

RECURSIVE JoinCoords(_, _)
JoinCoords(rows, coords) ==
    IF rows = <<>> THEN <<>>
    ELSE IF HasCoords(Head(rows), coords)
         THEN <<WithLatLon(Head(rows), coords)>> \o JoinCoords(Tail(rows), coords)
         ELSE JoinCoords(Tail(rows), coords)

\* Lines 55-64: read the cache file, collect the distinct addresses.
GeoBegin(df) ==
    /\ gpc = "idle"
    /\ passes < MaxPasses
    /\ g_df' = df
    /\ geocode_cache' = IF cache_file.exists THEN json_loads(cache_file.text) ELSE EmptyDict
    /\ unique_addresses' = UniqueOf(df, {})
    /\ address_coords' = EmptyDict
    /\ gi' = 1
    /\ gpc' = "loop"
    /\ g_result' = None
    /\ looked_up' = {}
    /\ lookup_errors' = {}
    /\ passes' = passes + 1
    /\ UNCHANGED <<cache_file, lookups>>

\* Lines 65-73 with the except clause missing: a lookup error leaves the call.
GeoLookupNoCatch ==
    /\ gpc = "loop"
    /\ gi <= Len(unique_addresses)
    /\ LET address == unique_addresses[gi] IN
       IF NeedsLookup(geocode_cache, address)
       THEN \E location \in LookupOutcomes :
              /\ lookups' = [lookups EXCEPT ![address] = @ + 1]
              /\ looked_up' = looked_up \cup {address}
              /\ IF location = Raise
                 THEN /\ lookup_errors' = lookup_errors \cup {address}
                      /\ gpc' = "raised"
                      /\ g_result' = Raised("LookupError")
                      /\ UNCHANGED <<geocode_cache, address_coords, gi>>
                 ELSE LET entry == IF location = None THEN None
                                   ELSE PyTuple(location.latitude, location.longitude)
                      IN /\ geocode_cache' = DictSet(geocode_cache, address, entry)
                         /\ address_coords' = DictSet(address_coords, address, entry)
                         /\ gi' = gi + 1
                         /\ UNCHANGED <<lookup_errors, gpc, g_result>>
       ELSE /\ address_coords' = DictSet(address_coords, address, geocode_cache[address])
            /\ gi' = gi + 1
            /\ UNCHANGED <<geocode_cache, lookups, looked_up, lookup_errors, gpc, g_result>>
    /\ UNCHANGED <<cache_file, g_df, unique_addresses, passes>>

\* Lines 65-73: one iteration of the for loop.
GeoLookup ==
    /\ gpc = "loop"
    /\ gi <= Len(unique_addresses)
    /\ LET address == unique_addresses[gi] IN
       IF NeedsLookup(geocode_cache, address)
       THEN \E location \in LookupOutcomes :
              LET entry == IF location \in {None, Raise} THEN None
                           ELSE PyTuple(location.latitude, location.longitude)
              IN /\ lookups' = [lookups EXCEPT ![address] = @ + 1]
                 /\ looked_up' = looked_up \cup {address}
                 /\ lookup_errors' = IF location = Raise
                                     THEN lookup_errors \cup {address}
                                     ELSE lookup_errors
                 /\ geocode_cache' = DictSet(geocode_cache, address, entry)
                 /\ address_coords' = DictSet(address_coords, address, entry)
       ELSE /\ address_coords' = DictSet(address_coords, address, geocode_cache[address])
            /\ UNCHANGED <<geocode_cache, lookups, looked_up, lookup_errors>>
    /\ gi' = gi + 1
    /\ UNCHANGED <<cache_file, gpc, g_df, unique_addresses, g_result, passes>>

\* Lines 75-79: write the cache file, join the pairs onto the rows, drop the
\* rows without one, split the pair into two columns.  With no row left,
\* pd.DataFrame([], index=...) has no column and assigning it to the two
\* columns raises ValueError("Columns must be same length as key").
GeoEnd ==
    /\ gpc = "loop"
    /\ gi > Len(unique_addresses)
    /\ cache_file' = [exists |-> TRUE, text |-> json_dumps(geocode_cache)]
    /\ LET kept == JoinCoords(g_df, address_coords) IN
       IF kept = <<>>
       THEN /\ gpc' = "raised"
            /\ g_result' = Raised("ValueError")
       ELSE /\ gpc' = "returned"
            /\ g_result' = Frame(kept)
    /\ UNCHANGED <<g_df, geocode_cache, unique_addresses, address_coords, gi,
                   lookups, looked_up, lookup_errors, passes>>

\* The call is over; its locals go.
GeoDone ==
    /\ gpc \in {"returned", "raised"}
    /\ gpc' = "idle"
    /\ g_df' = <<>>
    /\ geocode_cache' = EmptyDict
    /\ unique_addresses' = <<>>
    /\ address_coords' = EmptyDict
    /\ gi' = 1
    /\ g_result' = None
    /\ looked_up' = {}
    /\ lookup_errors' = {}
    /\ UNCHANGED <<cache_file, lookups, passes>>

GeoInit ==
    /\ cache_file = [exists |-> FALSE, text |-> EmptyDict]
    /\ gpc = "idle"
    /\ g_df = <<>>
    /\ geocode_cache = EmptyDict
    /\ unique_addresses = <<>>
    /\ address_coords = EmptyDict
    /\ gi = 1
    /\ g_result = None
    /\ lookups = [a \in Addresses |-> 0]
    /\ looked_up = {}
    /\ lookup_errors = {}
    /\ passes = 0

\* The frames a caller hands over: at least one row (both callers stop on an
\* empty fetch), any address or a missing one in each row.
GeoFrames ==
    UNION {[1..n -> {Row("THEFT", a, 0) : a \in Addresses \cup {NaN}}] : n \in 1..MaxRows}

GeoCall == \E df \in GeoFrames : GeoBegin(df)

(***************************************************************************)
(* Incident Fetcher: utils.fetch_crime_data.                               *)
(***************************************************************************)

\* A feature of a response: its attributes are the row.
Feature(attributes) == [attributes |-> attributes]

RECURSIVE Flatten(_)
\* The concatenation of a sequence of pages.
Flatten(ps) == IF ps = <<>> THEN <<>> ELSE Head(ps) \o Flatten(Tail(ps))

\* Lines 48-50: one row per feature, from its attributes; the epoch
\* milliseconds become a timestamp (kept here as the same instant).  With no
\* feature the frame has no column and df["Occurred_Datetime"] raises KeyError.
BuildFrame(features) ==
    IF features = <<>>
    THEN Raised("KeyError")
    ELSE Frame([i \in 1..Len(features) |-> features[i].attributes])

\* Lines 18-35.
FetchBegin ==
    /\ fpc = "idle"
    /\ fpc' = "loop"
    /\ all_features' = <<>>
    /\ offset' = 0
    /\ f_result' = None
    /\ pages' = <<>>

\* Lines 36-46 as a plausible slip: the loop stops on a short page, before
\* taking its records.
FetchPageStopOnShort(features) ==
    /\ fpc = "loop"
    /\ pages' = Append(pages, features)
    /\ IF Len(features) < batch_size
       THEN /\ f_result' = BuildFrame(all_features)
            /\ fpc' = IF all_features = <<>> THEN "raised" ELSE "returned"
            /\ UNCHANGED <<all_features, offset>>
       ELSE /\ all_features' = all_features \o features
            /\ offset' = offset + batch_size
            /\ UNCHANGED <<fpc, f_result>>

\* Lines 36-50: one request of the while loop, answered with `features`; on
\* the empty page the loop is left and the frame is built.
FetchPage(features) ==
    /\ fpc = "loop"
    /\ pages' = Append(pages, features)
    /\ IF features = <<>>
       THEN /\ f_result' = BuildFrame(all_features)
            /\ fpc' = IF all_features = <<>> THEN "raised" ELSE "returned"
            /\ UNCHANGED <<all_features, offset>>
       ELSE /\ all_features' = all_features \o features
            /\ offset' = offset + batch_size
            /\ UNCHANGED <<fpc, f_result>>

\* Lines 38-39: the request or the decoding of its answer raises; nothing
\* catches it.
FetchFail ==
    /\ fpc = "loop"
    /\ fpc' = "raised"
    /\ f_result' = Raised("RequestError")
    /\ UNCHANGED <<all_features, offset, pages>>

\* The call is over; its locals go.
FetchDone ==
    /\ fpc \in {"returned", "raised"}
    /\ fpc' = "idle"
    /\ all_features' = <<>>
    /\ offset' = 0
    /\ f_result' = None
    /\ pages' = <<>>

FetchInit ==
    /\ fpc = "idle"
    /\ all_features = <<>>
    /\ offset = 0
    /\ f_result = None
    /\ pages = <<>>

\* The page sizes the service is taken to answer with.
PageSizes == {0, 1, 2, batch_size - 1, batch_size}

\* The page of n records the service answers at resultOffset o: its records
\* o+1 .. o+n, told apart by their timestamps.
ServicePage(o, n) == [i \in 1..n |-> Feature(Row("THEFT", NaN, o + i))]

FetchRequest ==
    \E n \in PageSizes :
        /\ n > 0 => Len(pages) < MaxPages
        /\ FetchPage(ServicePage(offset, n))

(***************************************************************************)
(* Time-of-Day Classifier: utils.add_time_of_day.                          *)
(***************************************************************************)

MsPerHour == 3600000
HoursPerDay == 24

\* Line 98: Series.dt.hour of a timestamp given by its epoch milliseconds.
HourOf(ms) == (ms \div MsPerHour) % HoursPerDay

\* Lines 101-102.
Bins == <<0, 6, 12, 18, 24>>
Labels == <<"Night", "Morning", "Afternoon", "Evening">>
NoLabel == "NaN"       \* pd.cut's answer for a value in no bin

\* pd.cut with the default right=True: bins (a, b].
CutRightClosed(x) ==
    IF \E i \in 1..Len(Labels) : Bins[i] < x /\ x <= Bins[i + 1]
    THEN Labels[CHOOSE i \in 1..Len(Labels) : Bins[i] < x /\ x <= Bins[i + 1]]
    ELSE NoLabel

\* Lines 99-104: pd.cut(..., right=False): bins [a, b).
Cut(x) ==
    IF \E i \in 1..Len(Labels) : Bins[i] <= x /\ x < Bins[i + 1]
    THEN Labels[CHOOSE i \in 1..Len(Labels) : Bins[i] <= x /\ x < Bins[i + 1]]
    ELSE NoLabel

\* Lines 97-105.
add_time_of_day(df) ==
    [i \in 1..Len(df) |->
        LET hour == HourOf(df[i].Occurred_Datetime) IN
        Extend(df[i], [hour |-> hour, time_of_day |-> Cut(hour)])]

AddTimeOfDay ==
    /\ tpc = "input"
    /\ t_df' = add_time_of_day(t_df)
    /\ tpc' = "done"

\* Timestamps: the first and the last millisecond of every hour of NumDays days.
Timestamps ==
    {h * MsPerHour + e : h \in 0..(NumDays * HoursPerDay - 1), e \in {0, MsPerHour - 1}}

TimeFrames ==
    UNION {[1..n -> {Row("THEFT", NaN, ms) : ms \in Timestamps}] : n \in 1..MaxTimeRows}

TimeIdle == tpc = "input" /\ t_df = <<>>
TimeInit == tpc = "input" /\ t_df \in TimeFrames

(***************************************************************************)
(* Quantiles by linear interpolation (numpy.quantile, Series.quantile).    *)
(* Every q used is a multiple of 1/20, so twenty times a quantile of       *)
(* integers is an integer: quantiles are kept in twentieths.               *)
(***************************************************************************)
Scale == 20

RECURSIVE SortedValues(_)
\* The values of dict d in ascending order (with repetitions).
SortedValues(d) ==
    IF DOMAIN d = {} THEN <<>>
    ELSE LET k == CHOOSE x \in DOMAIN d : \A y \in DOMAIN d : d[x] <= d[y]
         IN <<d[k]>> \o SortedValues([x \in (DOMAIN d) \ {k} |-> d[x]])

\* Scale * (the a/Scale quantile of the sorted values v): the value at the
\* virtual index a/Scale * (n - 1), interpolated between its neighbours.
Quantile(v, a) ==
    LET n == Len(v)
        j == (a * (n - 1)) \div Scale
        r == (a * (n - 1)) % Scale
    IN IF r = 0 THEN Scale * v[j + 1]
       ELSE Scale * v[j + 1] + r * (v[j + 2] - v[j + 1])

RECURSIVE SortedSet(_)
\* np.unique: the distinct values in ascending order.
SortedSet(S) ==
    IF S = {} THEN <<>>
    ELSE LET m == CHOOSE x \in S : \A y \in S : x <= y
         IN <<m>> \o SortedSet(S \ {m})

(***************************************************************************)
(* Colour tiers of the street map: crime_dashboard.create_crime_map.       *)
(***************************************************************************)
color_palette == <<"#2ECC40", "#FFDC00", "#FF851B", "#FF4136", "#85144b">>
NoDataColor == "#CCCCCC"

\* Lines 66-70: the distinct 20/40/60/80/100 % quantiles, in twentieths.
classify_counts(counts) ==
    IF DOMAIN counts = {} THEN <<>>
    ELSE LET values == SortedValues(counts)
         IN SortedSet({Quantile(values, a) : a \in {4, 8, 12, 16, 20}})

\* Lines 153-160; brks are in twentieths.
get_color_for_count(count, brks) ==
    IF brks = <<>> THEN NoDataColor
    ELSE LET hits == {i \in 1..(Len(brks) - 1) :
                        brks[i] <= Scale * count /\ Scale * count < brks[i + 1]}
         IN IF hits # {}
            THEN color_palette[CHOOSE i \in hits : \A j \in hits : i <= j]
            ELSE color_palette[Len(color_palette)]

\* Lines 72-87: the breaks of the map and the colour of each of its edges.
ColorStreets ==
    /\ cpc = "input"
    /\ breaks' = classify_counts(edge_counts)
    /\ colors' = [e \in DOMAIN edge_counts |->
                    get_color_for_count(edge_counts[e], classify_counts(edge_counts))]
    /\ cpc' = "done"
    /\ UNCHANGED edge_counts

\* Filtered edge-count maps: value_counts of the filtered rows, so every
\* count is at least 1.
EdgeCountMaps ==
    UNION {[E -> 1..MaxCount] : E \in SUBSET (1..NumMapEdges)}

ColorIdle == cpc = "input" /\ edge_counts = EmptyDict /\ breaks = <<>> /\ colors = EmptyDict
ColorInit ==
    /\ cpc = "input"
    /\ edge_counts \in EdgeCountMaps
    /\ breaks = <<>>
    /\ colors = EmptyDict

(***************************************************************************)
(* Density Scorer: safety_score.py.  Scores are kept in tenths.            *)
(***************************************************************************)
NaNScore == [kind |-> "NaN"]
Score(tenths) == [kind |-> "score", tenths |-> tenths]

\* floor(10^7 * ln(100 / (k - 1/2) - 1) / 3) for k = 6..95: the sigmoid score
\* 10 * (1 - 1 / (1 + exp(-3 s))) rounds to at least k tenths iff s is at most
\* the k-th of these (in units of 10^-7).
ThetaUnit == 10000000
Theta ==
    <<
      9479505, 8887197, 8374352, 7920909, 7513526, 7142877,
      6802185, 6486367, 6191515, 5914559, 5653038, 5404954,
      5168658, 4942774, 4726142, 4517773, 4316818, 4122542,
      3934301, 3751531, 3573735, 3400468, 3231335, 3065977,
      2904074, 2745333, 2589487, 2436291, 2285521, 2136969,
      1990441, 1845758, 1702752, 1561263, 1421142, 1282247,
      1144444, 1007602, 871599, 736312, 601627, 467431,
      333611, 200060, 66668, -66669, -200061, -333612,
      -467432, -601628, -736313, -871600, -1007603, -1144445,
      -1282248, -1421143, -1561264, -1702753, -1845759, -1990442,
      -2136970, -2285522, -2436292, -2589488, -2745334, -2904075,
      -3065978, -3231336, -3400469, -3573736, -3751532, -3934302,
      -4122543, -4316819, -4517774, -4726143, -4942775, -5168659,
      -5404955, -5653039, -5914560, -6191516, -6486368, -6802186,
      -7142878, -7513527, -7920910, -8374353, -8887198, -9479506
    >>

\* Line 20 and line 23: the rounded, clamped sigmoid score, in tenths, of
\* scaled = num / den (den > 0).
Sigmoid(num, den) ==
    5 + Cardinality({k \in 1..Len(Theta) : num * ThetaUnit <= Theta[k] * den})

\* Lines 8-23: crime_counts is a dict edge -> count (its counts are >= 1).
\* With p95 = p50 the divisor is the 1e-9 alone: scaled is 0 at the median and
\* hugely negative below it, where exp overflows to inf and the score is 10.
calculate_crime_density_scores(crime_counts) ==
    LET values == SortedValues(crime_counts)
        p50 == Quantile(values, 10)
        p95 == Quantile(values, 19)
    IN [e \in DOMAIN crime_counts |->
          LET x == IF Scale * crime_counts[e] > p95 THEN p95 ELSE Scale * crime_counts[e]
          IN IF p95 = p50
             THEN (IF x = p50 THEN 50 ELSE 95)
             ELSE Sigmoid(x - p50, p95 - p50)]

RECURSIVE SumOver(_, _)
SumOver(f, S) ==
    IF S = {} THEN 0
    ELSE LET x == CHOOSE y \in S : TRUE IN f[x] + SumOver(f, S \ {x})

\* np.round of a value lying exactly between the integers lo and lo + 1.
HalfEven(lo) == IF lo % 2 = 0 THEN lo ELSE lo + 1

\* round(20 * |z|), for |z| given by q = floor((40 z)^2) and whether (40 z)^2
\* is exactly q; away is TRUE when z > 0.
RoundedOffset(q, exact, away) ==
    LET r == CHOOSE k \in 0..50 :
                 /\ (k = 0 \/ (2 * k - 1) * (2 * k - 1) <= q)
                 /\ (k = 50 \/ (2 * k + 1) * (2 * k + 1) > q)
        half == exact /\ r > 0 /\ (2 * r - 1) * (2 * r - 1) = q
    IN IF away
       THEN (IF half THEN HalfEven(50 + r - 1) ELSE 50 + r)
       ELSE (IF half THEN HalfEven(50 - r) ELSE 50 - r)

\* Lines 60-63: (scores - mean) / std * 2 + 5, rounded to a tenth, clipped to
\* [0, 10].  std is the sample standard deviation: NaN for one edge, 0 when
\* all scores agree, and x / NaN and 0 / 0 are NaN, which round and clip keep.
ZRescale(scores) ==
    LET E == DOMAIN scores
        n == Cardinality(E)
        S == SumOver(scores, E)
        V == n * SumOver([e \in E |-> scores[e] * scores[e]], E) - S * S
    IN [e \in E |->
          IF n < 2 \/ V = 0 THEN NaNScore
          ELSE LET d == n * scores[e] - S
                   num == 1600 * d * d * (n - 1)
               IN Score(RoundedOffset(num \div (n * V), num % (n * V) = 0, d > 0))]

\* Lines 38-63: value_counts of the snapped edges, their scores, the left
\* merge onto every edge of the network with 10 for the edges without a
\* count, the rescaling.
ScoreStreets ==
    /\ spc = "input"
    /\ LET counted == {e \in DOMAIN crime_count : crime_count[e] > 0}
           scored == calculate_crime_density_scores([e \in counted |-> crime_count[e]])
           merged == [e \in DOMAIN crime_count |-> IF e \in counted THEN scored[e] ELSE 100]
       IN safety_score' = ZRescale(merged)
    /\ spc' = "done"
    /\ UNCHANGED crime_count

\* Incident counts per edge of the network: the fetch and the geocoder
\* return only with at least one row, so some edge has an incident.
NetworkCounts ==
    {c \in [1..NumNetEdges -> 0..MaxIncidents] : \E e \in 1..NumNetEdges : c[e] > 0}

ScoreIdle == spc = "input" /\ crime_count = EmptyDict /\ safety_score = EmptyDict
ScoreInit ==
    /\ spc = "input"
    /\ crime_count \in NetworkCounts
    /\ safety_score = EmptyDict

(***************************************************************************)
(* Dashboard: crime_dashboard.original_main, one action per interaction.   *)
(* A click on Run Analysis runs fetch_crime_data and geocode_addresses     *)
(* step by step (the actions above) before the script run goes on.         *)
(***************************************************************************)

\* The date ranges the user picks, and the incidents the feature service
\* holds for each.
EmptyRange == "2025-01-01/2025-01-02"
WinterRange == "2025-01-01/2025-04-01"
SpringRange == "2025-04-01/2025-07-01"
DateRanges == {EmptyRange, WinterRange, SpringRange}

Feed(r) ==
    CASE r = EmptyRange -> <<>>
      [] r = WinterRange ->
            <<Feature(Row("THEFT", 1, 2 * MsPerHour)),
              Feature(Row("ASSAULT", 1, 13 * MsPerHour)),
              Feature(Row("THEFT", NumAddresses, 20 * MsPerHour))>>
      [] OTHER -> <<Feature(Row("BURGLARY", NumAddresses, 7 * MsPerHour))>>

\* The page the service answers for resultOffset o and resultRecordCount n.
ServiceAnswer(r, o, n) ==
    LET last == IF o + n < Len(Feed(r)) THEN o + n ELSE Len(Feed(r))
    IN SubSeq(Feed(r), o + 1, last)

\* utils.py line 94: the edge (u, v, key) nearest to a point.
nearest_edges(lat, lon) == <<lat, lat + 1, 0>>

\* utils.py lines 81-95: every row gets its nearest edge.
process_spatial_data(df) ==
    [i \in 1..Len(df) |->
        Extend(df[i], [edge |-> nearest_edges(df[i].latitude, df[i].longitude)])]

\* Series.value_counts(): how many rows hold each value of a column.
EdgeValueCounts(df) ==
    [e \in {df[i].edge : i \in 1..Len(df)} |->
        Cardinality({i \in 1..Len(df) : df[i].edge = e})]

\* Lines 184-189.
Dataset(geo_df) ==
    LET counts == EdgeValueCounts(geo_df) IN
    [kind |-> "data",
     geo_df |-> geo_df,
     max_severity |-> CHOOSE m \in {counts[e] : e \in DOMAIN counts} :
                          \A e \in DOMAIN counts : counts[e] <= m,
     crime_types |-> {geo_df[i].Incident_Type : i \in 1..Len(geo_df)}]

AllTimes == {Labels[i] : i \in 1..Len(Labels)}

\* Lines 36-40.
InitialFilters == [types |-> {}, times |-> AllTimes, min_severity |-> 0]

\* Lines 190-194.
ResetFilters(data) == [types |-> data.crime_types, times |-> AllTimes, min_severity |-> 0]

\* Line 238-239: Series.isin(values), one boolean per row; a missing value
\* is in no list of labels.
isin(df, column, values) == [i \in 1..Len(df) |-> df[i][column] \in values]

\* The element-wise | of two boolean Series.
MaskOr(a, b) == [i \in 1..Len(a) |-> a[i] \/ b[i]]

\* Line 238: the element-wise & of two boolean Series.
MaskAnd(a, b) == [i \in 1..Len(a) |-> a[i] /\ b[i]]

\* Line 237: df[mask] keeps the rows whose mask is True, in their order.
RECURSIVE BoolIndex(_, _)
BoolIndex(df, mask) ==
    IF df = <<>> THEN <<>>
    ELSE IF Head(mask)
         THEN <<Head(df)>> \o BoolIndex(Tail(df), Tail(mask))
         ELSE BoolIndex(Tail(df), Tail(mask))

\* Lines 237-240.
FilteredDf(geo_df, f) ==
    BoolIndex(geo_df, MaskAnd(isin(geo_df, "Incident_Type", f.types),
                              isin(geo_df, "time_of_day", f.times)))

\* Lines 242-244.
FilteredEdgeCounts(df, f) ==
    LET counts == EdgeValueCounts(df)
    IN [e \in {k \in DOMAIN counts : counts[k] >= f.min_severity} |-> counts[e]]

\* Lines 235-244 on their own.
FilterView ==
    /\ vpc = "input"
    /\ filtered_df' = FilteredDf(v_df, v_filters)
    /\ filtered_edge_counts' = FilteredEdgeCounts(filtered_df', v_filters)
    /\ vpc' = "done"
    /\ UNCHANGED <<v_df, v_filters>>

\* The columns of geo_df the view reads, for rows of two incident types, on
\* two edges, at night, in the evening or with no timestamp.
ViewRows ==
    [Incident_Type : {"THEFT", "ASSAULT"},
     time_of_day : {"Night", "Evening", NoLabel},
     edge : {nearest_edges(l, 0 - l) : l \in 1..2}]

\* processed_data['geo_df'] has at least one row.
ViewFrames == UNION {[1..n -> ViewRows] : n \in 1..MaxViewRows}

\* st.session_state.filters: any selection of the types, any selection of
\* the two buckets the rows fall in, no threshold or a threshold of two.
ViewFilters ==
    [types : SUBSET {"THEFT", "ASSAULT"},
     times : SUBSET {"Night", "Evening"},
     min_severity : {0, 2}]

ViewIdle ==
    /\ vpc = "input"
    /\ v_df = <<>>
    /\ v_filters = InitialFilters
    /\ filtered_df = <<>>
    /\ filtered_edge_counts = EmptyDict

ViewInit ==
    /\ vpc = "input"
    /\ v_df \in ViewFrames
    /\ v_filters \in ViewFilters
    /\ filtered_df = <<>>
    /\ filtered_edge_counts = EmptyDict

\* Lines 203-229: what the three keyed widgets hold after a run that set
\* temp_filters on lines 190-194.  A widget whose default changed is a new
\* widget showing the default; a Streamlit that identifies a widget by its
\* key alone keeps a selection that is still among the options.
StagedAfterRun(data) ==
    {ResetFilters(data)} \cup
    (IF /\ temp_filters # None
        /\ temp_filters.types \subseteq data.crime_types
        /\ temp_filters.min_severity <= data.max_severity
     THEN {temp_filters} ELSE {})

\* Lines 196, 235, 312-313: what a script run that raises nothing shows.
Rendered(data) == IF data = None THEN "info" ELSE "map"

NoRun == [kind |-> "None"]
RunLog(n, geocoded, aggregated, raised) ==
    [kind |-> "run", incidents |-> n, geocoded |-> geocoded,
     aggregated |-> aggregated, raised |-> raised]

\* The run raised: Streamlit shows the exception and the script run ends.
Abort(n, geocoded, exc) ==
    /\ ui' = "exception"
    /\ dpc' = "ready"
    /\ last_run' = RunLog(n, geocoded, FALSE, exc)
    /\ UNCHANGED <<processed_data, temp_filters>>

\* Lines 181-194 and the rest of the script run, given the frame
\* geocode_addresses returned.  The road network may fail to load.
LoadDataset(n, geocoded, geo_rows) ==
    \/ LET data == Dataset(process_spatial_data(add_time_of_day(geo_rows))) IN
         /\ processed_data' = data
         /\ temp_filters' \in StagedAfterRun(data)
         /\ ui' = "map"
         /\ dpc' = "ready"
         /\ last_run' = RunLog(n, geocoded, TRUE, "")
    \/ Abort(n, geocoded, "NetworkError")

\* utils.py lines 52-53 without the decorator: every call runs the body.
GeocodeNotMemoized(raw) == FALSE

\* utils.py lines 52-53: st.cache_data leaves a parameter whose name starts
\* with an underscore out of the cache key, and _df is the only parameter:
\* once a call has returned, every call is answered with what it returned.
GeocodeMemoHit(raw) == geocode_memo # None

\* Lines 179-194, given the frame fetch_crime_data returned: geocode_addresses
\* answers from its st.cache_data entry when it has one, else its body runs.
AfterFetch(r, raw) ==
    IF raw.rows = <<>>
    THEN /\ ui' = Rendered(processed_data)
         /\ dpc' = "ready"
         /\ last_run' = RunLog(0, FALSE, FALSE, "")
         /\ UNCHANGED <<processed_data, temp_filters, geocode_memo, geoVars>>
    ELSE IF GeocodeMemoHit(raw)
    THEN /\ LoadDataset(Len(raw.rows), FALSE, geocode_memo.rows)
         /\ UNCHANGED <<geocode_memo, geoVars>>
    ELSE /\ GeoBegin(raw.rows)
         /\ dpc' = "geocode"
         /\ UNCHANGED <<processed_data, temp_filters, geocode_memo, ui, last_run>>

\* Lines 176-178: a click on Run Analysis; fetch_crime_data answers from its
\* st.cache_data entry for the date range when it has one.
RunAnalysis(r) ==
    /\ dpc = "ready"
    /\ d_range' = r
    /\ IF r \in DOMAIN fetch_memo
       THEN /\ AfterFetch(r, fetch_memo[r])
            /\ UNCHANGED fetchVars
       ELSE /\ FetchBegin
            /\ dpc' = "fetch"
            /\ UNCHANGED <<processed_data, temp_filters, geocode_memo, ui, last_run, geoVars>>
    /\ UNCHANGED <<filters, fetch_memo>>

\* One request of the fetch of the run.
RunFetchPage ==
    /\ dpc = "fetch"
    /\ FetchPage(ServiceAnswer(d_range, offset, batch_size))
    /\ UNCHANGED <<geoVars, dashVars>>

RunFetchFail ==
    /\ dpc = "fetch"
    /\ FetchFail
    /\ UNCHANGED <<geoVars, dashVars>>

\* fetch_crime_data is over: st.cache_data keeps what it returned (nothing
\* when it raised) and line 179 goes on.
RunFetched ==
    /\ dpc = "fetch"
    /\ fpc \in {"returned", "raised"}
    /\ FetchDone
    /\ IF fpc = "raised"
       THEN /\ Abort(Len(all_features), FALSE, f_result.exc)
            /\ UNCHANGED <<fetch_memo, geocode_memo, geoVars>>
       ELSE /\ fetch_memo' = DictSet(fetch_memo, d_range, f_result)
            /\ AfterFetch(d_range, f_result)
    /\ UNCHANGED <<filters, d_range>>

\* One step of the geocoding pass of the run.
RunGeoLookup ==
    /\ dpc = "geocode"
    /\ GeoLookup
    /\ UNCHANGED <<fetchVars, dashVars>>

RunGeoEnd ==
    /\ dpc = "geocode"
    /\ GeoEnd
    /\ UNCHANGED <<fetchVars, dashVars>>

\* geocode_addresses is over: st.cache_data keeps what it returned (nothing
\* when it raised) and line 181 goes on.
RunGeocoded ==
    /\ dpc = "geocode"
    /\ gpc \in {"returned", "raised"}
    /\ GeoDone
    /\ IF gpc = "raised"
       THEN /\ Abort(Len(g_df), TRUE, g_result.exc)
            /\ UNCHANGED geocode_memo
       ELSE /\ geocode_memo' = g_result
            /\ LoadDataset(Len(g_df), TRUE, g_result.rows)
    /\ UNCHANGED <<filters, fetch_memo, d_range, fetchVars>>

\* The selections of the Time of Day widget that are tried.
TimeSelections == {AllTimes, {"Night"}}

\* Lines 235-247, 312: what the map of the page is built from: the filtered
\* incidents and the filtered edge counts; none before a dataset is loaded.
RenderedView ==
    IF processed_data = None
    THEN [filtered_df |-> <<>>, filtered_edge_counts |-> EmptyDict]
    ELSE LET df == FilteredDf(processed_data.geo_df, filters)
         IN [filtered_df |-> df, filtered_edge_counts |-> FilteredEdgeCounts(df, filters)]

\* A Crime Types widget wired to the applied state: the selection is stored
\* in filters as well.
EditTypesLive(selected) ==
    /\ dpc = "ready"
    /\ processed_data # None
    /\ selected \subseteq processed_data.crime_types
    /\ temp_filters' = [temp_filters EXCEPT !.types = selected]
    /\ filters' = [filters EXCEPT !.types = selected]
    /\ ui' = "map"
    /\ UNCHANGED <<processed_data, fetch_memo, geocode_memo, dpc, d_range, last_run>>

\* Lines 203-229: the user changes one of the three widgets; the script
\* reruns and stores what the widgets hold.
EditTypes(selected) ==
    /\ dpc = "ready"
    /\ processed_data # None
    /\ selected \subseteq processed_data.crime_types
    /\ temp_filters' = [temp_filters EXCEPT !.types = selected]
    /\ ui' = "map"
    /\ UNCHANGED <<processed_data, filters, fetch_memo, geocode_memo, dpc, d_range, last_run>>

EditTimes(selected) ==
    /\ dpc = "ready"
    /\ processed_data # None
    /\ temp_filters' = [temp_filters EXCEPT !.times = selected]
    /\ ui' = "map"
    /\ UNCHANGED <<processed_data, filters, fetch_memo, geocode_memo, dpc, d_range, last_run>>

EditSeverity(value) ==
    /\ dpc = "ready"
    /\ processed_data # None
    /\ value \in 0..processed_data.max_severity
    /\ temp_filters' = [temp_filters EXCEPT !.min_severity = value]
    /\ ui' = "map"
    /\ UNCHANGED <<processed_data, filters, fetch_memo, geocode_memo, dpc, d_range, last_run>>

\* Lines 231-233: a click on Apply Filters.
ApplyFilters ==
    /\ dpc = "ready"
    /\ processed_data # None
    /\ filters' = temp_filters
    /\ ui' = "map"
    /\ UNCHANGED <<processed_data, temp_filters, fetch_memo, geocode_memo, dpc, d_range, last_run>>

\* Lines 172-174: a change of a date input: the script reruns and nothing else.
Rerun ==
    /\ dpc = "ready"
    /\ ui' = Rendered(processed_data)
    /\ ui' # ui
    /\ UNCHANGED <<processed_data, filters, temp_filters, fetch_memo, geocode_memo,
                   dpc, d_range, last_run>>

\* Lines 33-40, and empty st.cache_data stores.
DashInit ==
    /\ processed_data = None
    /\ filters = InitialFilters
    /\ temp_filters = None
    /\ fetch_memo = EmptyDict
    /\ geocode_memo = None
    /\ dpc = "ready"
    /\ d_range = EmptyRange
    /\ ui = "info"
    /\ last_run = NoRun

(***************************************************************************)
(* Specifications.                                                         *)
(***************************************************************************)
InitGeo == GeoInit /\ FetchInit /\ TimeIdle /\ ColorIdle /\ ScoreIdle /\ ViewIdle /\ DashInit
NextGeo ==
    \/ (GeoCall /\ UNCHANGED <<fetchVars, timeVars, colorVars, scoreVars, viewVars, dashVars>>)
    \/ (GeoLookup /\ UNCHANGED <<fetchVars, timeVars, colorVars, scoreVars, viewVars, dashVars>>)
    \/ (GeoEnd /\ UNCHANGED <<fetchVars, timeVars, colorVars, scoreVars, viewVars, dashVars>>)
    \/ (GeoDone /\ UNCHANGED <<fetchVars, timeVars, colorVars, scoreVars, viewVars, dashVars>>)
SpecGeo == InitGeo /\ [][NextGeo]_vars

InitFetch == GeoInit /\ FetchInit /\ TimeIdle /\ ColorIdle /\ ScoreIdle /\ ViewIdle /\ DashInit
NextFetch ==
    \/ (FetchBegin /\ UNCHANGED <<geoVars, timeVars, colorVars, scoreVars, viewVars, dashVars>>)
    \/ (FetchRequest /\ UNCHANGED <<geoVars, timeVars, colorVars, scoreVars, viewVars, dashVars>>)
    \/ (FetchFail /\ UNCHANGED <<geoVars, timeVars, colorVars, scoreVars, viewVars, dashVars>>)
    \/ (FetchDone /\ UNCHANGED <<geoVars, timeVars, colorVars, scoreVars, viewVars, dashVars>>)
SpecFetch == InitFetch /\ [][NextFetch]_vars

InitTime == GeoInit /\ FetchInit /\ TimeInit /\ ColorIdle /\ ScoreIdle /\ ViewIdle /\ DashInit
NextTime == AddTimeOfDay /\ UNCHANGED <<geoVars, fetchVars, colorVars, scoreVars, viewVars, dashVars>>
SpecTime == InitTime /\ [][NextTime]_vars

InitColor == GeoInit /\ FetchInit /\ TimeIdle /\ ColorInit /\ ScoreIdle /\ ViewIdle /\ DashInit
NextColor == ColorStreets /\ UNCHANGED <<geoVars, fetchVars, timeVars, scoreVars, viewVars, dashVars>>
SpecColor == InitColor /\ [][NextColor]_vars

InitScore == GeoInit /\ FetchInit /\ TimeIdle /\ ColorIdle /\ ScoreInit /\ ViewIdle /\ DashInit
NextScore == ScoreStreets /\ UNCHANGED <<geoVars, fetchVars, timeVars, colorVars, viewVars, dashVars>>
SpecScore == InitScore /\ [][NextScore]_vars

InitView == GeoInit /\ FetchInit /\ TimeIdle /\ ColorIdle /\ ScoreIdle /\ ViewInit /\ DashInit
NextView == FilterView /\ UNCHANGED <<geoVars, fetchVars, timeVars, colorVars, scoreVars, dashVars>>
SpecView == InitView /\ [][NextView]_vars

InitDash == GeoInit /\ FetchInit /\ TimeIdle /\ ColorIdle /\ ScoreIdle /\ ViewIdle /\ DashInit
NextDash ==
    \/ ((\E r \in DateRanges : RunAnalysis(r)) /\ UNCHANGED <<timeVars, colorVars, scoreVars, viewVars>>)
    \/ (RunFetchPage /\ UNCHANGED <<timeVars, colorVars, scoreVars, viewVars>>)
    \/ (RunFetchFail /\ UNCHANGED <<timeVars, colorVars, scoreVars, viewVars>>)
    \/ (RunFetched /\ UNCHANGED <<timeVars, colorVars, scoreVars, viewVars>>)
    \/ (RunGeoLookup /\ UNCHANGED <<timeVars, colorVars, scoreVars, viewVars>>)
    \/ (RunGeoEnd /\ UNCHANGED <<timeVars, colorVars, scoreVars, viewVars>>)
    \/ (RunGeocoded /\ UNCHANGED <<timeVars, colorVars, scoreVars, viewVars>>)
    \/ ((\E sel \in SUBSET {"THEFT", "ASSAULT", "BURGLARY"} : EditTypes(sel))
            /\ UNCHANGED <<geoVars, fetchVars, timeVars, colorVars, scoreVars, viewVars>>)
    \/ ((\E sel \in TimeSelections : EditTimes(sel))
            /\ UNCHANGED <<geoVars, fetchVars, timeVars, colorVars, scoreVars, viewVars>>)
    \/ ((\E v \in 0..MaxRows : EditSeverity(v))
            /\ UNCHANGED <<geoVars, fetchVars, timeVars, colorVars, scoreVars, viewVars>>)
    \/ (ApplyFilters /\ UNCHANGED <<geoVars, fetchVars, timeVars, colorVars, scoreVars, viewVars>>)
    \/ (Rerun /\ UNCHANGED <<geoVars, fetchVars, timeVars, colorVars, scoreVars, viewVars>>)
SpecDash == InitDash /\ [][NextDash]_vars

(***************************************************************************)
(* Claims about the Address Geocoder, checked under SpecGeo.               *)
(***************************************************************************)

\* C1: over any sequence of geocoding passes sharing the persisted cache, the
\* provider is queried at most once per distinct address; an address already
\* in the cache, the null marker included, is never looked up again.
C1_AtMostOneLookupPerAddress ==
    /\ [](\A a \in Addresses : lookups[a] <= 1)
    /\ [][\A a \in Addresses :
            (cache_file.exists /\ a \in DOMAIN cache_file.text) => lookups'[a] = lookups[a]]_vars

\* C1 witness: a second pass meets an address the first pass cached as
\* unresolvable and passes it without a lookup.
C1_Witness ==
    /\ passes = 2
    /\ gpc = "returned"
    /\ \E a \in DOMAIN address_coords :
         /\ a \notin looked_up
         /\ address_coords[a] = None
         /\ lookups[a] = 1

\* The rows geocode_addresses is to return: the input rows, in order, whose
\* address the cache file records with a pair, each with that pair.
RECURSIVE ResolvedRows(_)
ResolvedRows(rows) ==
    IF rows = <<>> THEN <<>>
    ELSE LET r == Head(rows)
             a == r.Block_Address
         IN IF a # NaN /\ a \in DOMAIN cache_file.text /\ cache_file.text[a] # None
            THEN <<[Incident_Type |-> r.Incident_Type,
                    Block_Address |-> a,
                    Occurred_Datetime |-> r.Occurred_Datetime,
                    latitude |-> cache_file.text[a].lat,
                    longitude |-> cache_file.text[a].lon]>> \o ResolvedRows(Tail(rows))
            ELSE ResolvedRows(Tail(rows))

\* The columns of a returned row the claim speaks of.
Visible(r) ==
    [Incident_Type |-> r.Incident_Type,
     Block_Address |-> r.Block_Address,
     Occurred_Datetime |-> r.Occurred_Datetime,
     latitude |-> r.latitude,
     longitude |-> r.longitude]

\* C9: geocode_addresses returns exactly the input incidents whose address
\* maps to a resolved pair, each with the pair recorded for its address; the
\* others are dropped, and a batch in which no address resolves yields an
\* empty result rather than an error.
C9_ReturnsResolvedSubset ==
    gpc \in {"returned", "raised"} =>
        /\ g_result.kind = "frame"
        /\ [i \in 1..Len(g_result.rows) |-> Visible(g_result.rows[i])] = ResolvedRows(g_df)

\* C10: a lookup error for one address is not propagated: the address is
\* recorded in the cache as unresolvable, every remaining address of the
\* batch is still processed, and the cache is persisted at the end of the pass.
C10_LookupErrorContained ==
    /\ g_result # Raised("LookupError")
    /\ \A a \in lookup_errors : a \in DOMAIN geocode_cache /\ geocode_cache[a] = None
    /\ gpc \in {"returned", "raised"} =>
         /\ DOMAIN address_coords = {unique_addresses[i] : i \in 1..Len(unique_addresses)}
         /\ cache_file.exists
         /\ cache_file.text = json_dumps(geocode_cache)
         /\ \A a \in lookup_errors : cache_file.text[a] = None

\* C10 witness: the first address of a batch raised, a later one was still
\* resolved, and the pass returned.
C10_Witness ==
    /\ gpc = "returned"
    /\ Len(unique_addresses) >= 2
    /\ unique_addresses[1] \in lookup_errors
    /\ unique_addresses[2] \in looked_up
    /\ address_coords[unique_addresses[2]] # None

(***************************************************************************)
(* Claims about the Incident Fetcher, checked under SpecFetch.             *)
(***************************************************************************)

\* C7: fetch_crime_data accumulates exactly the records of every page
\* answered before the first empty page, each once, and stops at the first
\* empty page; a page of exactly batch_size records followed by an empty one
\* yields exactly batch_size incidents.
C7_AccumulatesUntilEmptyPage ==
    /\ fpc = "loop" =>
         /\ \A i \in 1..Len(pages) : pages[i] # <<>>
         /\ all_features = Flatten(pages)
    /\ fpc = "returned" =>
         /\ pages[Len(pages)] = <<>>
         /\ \A i \in 1..(Len(pages) - 1) : pages[i] # <<>>
         /\ Len(f_result.rows) = Len(Flatten(pages))
         /\ \A i \in 1..Len(f_result.rows) : f_result.rows[i] = Flatten(pages)[i].attributes
         /\ (Len(pages) = 2 /\ Len(pages[1]) = batch_size) => Len(f_result.rows) = batch_size

\* C7 witness: a page of batch_size records, then the empty page, and the
\* call returned batch_size rows.
C7_Witness ==
    /\ fpc = "returned"
    /\ Len(pages) = 2
    /\ Len(pages[1]) = batch_size
    /\ pages[2] = <<>>
    /\ Len(f_result.rows) = batch_size

(***************************************************************************)
(* Claims about the Time-of-Day Classifier, checked under SpecTime.        *)
(***************************************************************************)

\* C8: add_time_of_day labels every hour 0..23 with exactly one bucket:
\* Night for 0..5, Morning for 6..11, Afternoon for 12..17, Evening for 18..23.
C8_BucketsPartitionTheDay ==
    tpc = "done" =>
        \A i \in 1..Len(t_df) :
            LET h == t_df[i].hour
                l == t_df[i].time_of_day
            IN /\ h \in 0..23
               /\ h \in 0..5 => l = "Night"
               /\ h \in 6..11 => l = "Morning"
               /\ h \in 12..17 => l = "Afternoon"
               /\ h \in 18..23 => l = "Evening"

\* C8 witness: rows at the bucket edges 0 and 18 got Night and Evening.
C8_Witness ==
    /\ tpc = "done"
    /\ \E i \in 1..Len(t_df) :
         \/ t_df[i].hour = 0 /\ t_df[i].time_of_day = "Night"
         \/ t_df[i].hour = 18 /\ t_df[i].time_of_day = "Evening"

(***************************************************************************)
(* Claims about the colour tiers, checked under SpecColor.                 *)
(***************************************************************************)
CountValues == {edge_counts[e] : e \in DOMAIN edge_counts}

\* C3: with at least two distinct counts in the filtered map, every edge
\* holding the maximum count is in the top tier (#85144b) and every edge
\* holding the minimum count is in the bottom tier (#2ECC40).
C3_ExtremesInEndTiers ==
    (cpc = "done" /\ Cardinality(CountValues) >= 2) =>
        \A e \in DOMAIN edge_counts :
            /\ (\A v \in CountValues : v <= edge_counts[e]) => colors[e] = "#85144b"
            /\ (\A v \in CountValues : v >= edge_counts[e]) => colors[e] = "#2ECC40"

\* C4: an empty or single-valued count distribution yields no breakpoints
\* and every rendered edge gets the neutral colour #CCCCCC.
C4_DegenerateIsNoData ==
    (cpc = "done" /\ Cardinality(CountValues) <= 1) =>
        /\ breaks = <<>>
        /\ \A e \in DOMAIN edge_counts : colors[e] = "#CCCCCC"

(***************************************************************************)
(* Claims about the Density Scorer, checked under SpecScore.               *)
(***************************************************************************)

\* C6: every edge of the network gets a defined final safety score in
\* [0, 10], also when all edges carry the same score before the rescaling.
C6_EveryEdgeScoredIn0To10 ==
    spc = "done" =>
        \A e \in DOMAIN crime_count :
            /\ e \in DOMAIN safety_score
            /\ safety_score[e].kind = "score"
            /\ safety_score[e].tenths \in 0..100

(***************************************************************************)
(* Claims about the dashboard, checked under SpecDash.                     *)
(***************************************************************************)

\* C2: when the fetch of a Run Analysis returns zero incidents, the run
\* completes without raising, makes no geocoding and no spatial-aggregation
\* call, and the page ends in its informational "no data" state.
C2_EmptyFetchEndsInNoData ==
    (/\ last_run # NoRun
     /\ last_run.incidents = 0
     /\ last_run.raised # "RequestError") =>
        /\ last_run.raised = ""
        /\ ~last_run.geocoded
        /\ ~last_run.aggregated
        /\ ui # "exception"
        /\ processed_data = None => ui = "info"

\* C5: whenever a dataset is loaded, every applied incident type is one of
\* the dataset's types and the applied threshold lies in 0..max per-edge count.
C5_AppliedFiltersFitDataset ==
    processed_data # None =>
        /\ filters.types \subseteq processed_data.crime_types
        /\ filters.min_severity \in 0..processed_data.max_severity

\* C5 witness: with a type selection and a threshold applied to the winter
\* dataset, a Run Analysis for the spring range has completed.
C5_Witness ==
    /\ dpc = "ready"
    /\ processed_data # None
    /\ last_run # NoRun
    /\ last_run.aggregated
    /\ last_run.incidents = Len(Feed(SpringRange))
    /\ WinterRange \in DOMAIN fetch_memo
    /\ filters.types # {}
    /\ filters.min_severity > 0

(***************************************************************************)
(* Claims about the filtered view, checked under SpecView.                 *)
(***************************************************************************)

\* The dataset filtered by incident type alone, and by time of day alone.
ByType(df) == BoolIndex(df, isin(df, "Incident_Type", v_filters.types))
ByTime(df) == BoolIndex(df, isin(df, "time_of_day", v_filters.times))

\* The rows whose type is selected and whose bucket is selected.
TypeAndTime(r) == r.Incident_Type \in v_filters.types /\ r.time_of_day \in v_filters.times

\* C11: filtering by type then by time of day gives the same incidents as
\* filtering by time of day then by type, both are the rows with a selected
\* type and a selected bucket, which is what the view computes, and applying
\* a filter twice gives what applying it once gives.
C11_FilterCommutesAndIsIdempotent ==
    vpc = "done" =>
        /\ ByTime(ByType(v_df)) = ByType(ByTime(v_df))
        /\ ByTime(ByType(v_df)) = SelectSeq(v_df, TypeAndTime)
        /\ filtered_df = SelectSeq(v_df, TypeAndTime)
        /\ ByType(ByType(v_df)) = ByType(v_df)
        /\ ByTime(ByTime(v_df)) = ByTime(v_df)
        /\ FilteredDf(filtered_df, v_filters) = filtered_df

\* C11 witness: the view was computed and each of the two filters removed a
\* row the other kept.
C11_Witness ==
    /\ vpc = "done"
    /\ filtered_df # <<>>
    /\ ByType(v_df) # filtered_df
    /\ ByTime(v_df) # filtered_df
    /\ ByType(v_df) # v_df
    /\ ByTime(v_df) # v_df

(***************************************************************************)
(* Claims about the staged and applied filter state and the in-memory      *)
(* caches, checked under SpecDash.                                         *)
(***************************************************************************)

\* C12: the applied filter state changes only through Apply Filters, which
\* copies the staged state into it: every other step (Run Analysis and its
\* fetch and geocoding, an edit of the type, time-of-day or threshold
\* widget, a rerun) leaves the applied state, the filtered incidents and the
\* filtered edge counts as they were (they are computed from the dataset and
\* the applied state, so they are compared when the dataset was replaced).
C12_AppliedChangesOnlyOnApply ==
    [][\/ (ApplyFilters /\ filters' = temp_filters)
       \/ /\ filters' = filters
          /\ (processed_data' # processed_data => RenderedView' = RenderedView)]_vars

\* C12 witness: filters were applied and show incidents, the staged state
\* was edited away from them afterwards, and a Run Analysis is under way.
C12_Witness ==
    /\ processed_data # None
    /\ dpc = "fetch"
    /\ filters.types # {}
    /\ temp_filters # filters
    /\ RenderedView.filtered_df # <<>>

\* The columns fetch_crime_data gave a row of the loaded dataset.
Fetched(r) == Row(r.Incident_Type, r.Block_Address, r.Occurred_Datetime)

\* C13: the in-memory caches are keyed by each stage's exact inputs: after a
\* Run Analysis that loaded a dataset, the fetch result is the one kept for
\* the run's date range and, whether geocode_addresses ran or was answered
\* from its cache, the loaded dataset holds only incidents fetched for this
\* run: no run receives the result computed for another run's incidents.
C13_CachesKeyedByExactInputs ==
    (dpc = "ready" /\ last_run.kind = "run" /\ last_run.aggregated) =>
        /\ d_range \in DOMAIN fetch_memo
        /\ last_run.incidents = Len(fetch_memo[d_range].rows)
        /\ \A i \in 1..Len(processed_data.geo_df) :
              \E j \in 1..Len(fetch_memo[d_range].rows) :
                  Fetched(processed_data.geo_df[i]) = fetch_memo[d_range].rows[j]

====
